---------------------------- MODULE Spec2Model ----------------------------
(* Model of src/main.py: the research pipeline behind POST /conversations  *)
(* (search -> extract per URL -> summarize -> persist) and the two read     *)
(* endpoints over the conversation store.                                   *)
(*                                                                          *)
(* Every request is a process with a position (pc).  A create request      *)
(* advances one blocking external call at a time; the read endpoints make   *)
(* a single store call and are one step each.  The outcome of every         *)
(* external call (search, article download/parse, model call, store write,  *)
(* store query) is chosen nondeterministically.                             *)
(*                                                                          *)
(* Encoding of Python values:                                               *)
(*   Optional[T]   a sequence of length 0 (None) or 1 (the value)           *)
(*   str           a TLA+ string; text built by an f-string is the tuple    *)
(*                 of its pieces                                            *)
(*   pydantic obj  a record with a cls field naming the class               *)
(*   dict          a record without the cls field                           *)
(*   uuid4()       the next value of a counter (never repeats)              *)
EXTENDS Integers, Sequences, FiniteSets, TLC

VARIABLES
    db,               \* main.py:23  TRUE iff the Firestore client was created
    google_api_key,   \* main.py:24  TRUE iff GOOGLE_API_KEY is set
    serpapi_api_key,  \* main.py:25  TRUE iff SERPAPI_API_KEY is set
    store,            \* the 'conversations' collection: document id -> dict
    req,              \* the create requests in flight, one record per slot
    last,             \* history: the request answered most recently, with its response
    nextUuid,         \* supply of uuid.uuid4()
    clock,            \* datetime.now(timezone.utc): every reading is later than the last
    nWork,            \* valid POST requests admitted plus candidate URLs handed out
    setCalls          \* history: every document(id).set(...) call, in order

vars == <<db, google_api_key, serpapi_api_key, store, req, last, nextUuid, clock,
          nWork, setCalls>>

---------------------------------------------------------------------------
(* Bounds of the exploration *)

\* create requests that can be in flight together
NumReqs == 2
\* work of one run: every admitted create request counts one, every candidate
\* URL its search hands out counts one
MaxWork == 5

Reqs == 1..NumReqs

---------------------------------------------------------------------------
(* Values *)

None == <<>>
Some(x) == <<x>>

\* request.get("query"): missing key, empty string, or a text
Queries == {None, Some(""), Some("what is tla")}

\* the i-th organic result of the search provider; the fourth repeats the first
Ranking(i) ==
    CASE i % 3 = 1 -> "https://a.example"
      [] i % 3 = 2 -> "https://b.example"
      [] OTHER     -> "https://c.example"

\* the first n organic results
TopResults(n) == [i \in 1..n |-> Ranking(i)]

\* main.py:113-116
DemoUrls == <<"https://en.wikipedia.org/wiki/Main_Page", "https://www.example.com">>

\* main.py:135-146
DemoContent == << <<"--- SAMPLE CONTENT FOR DEMO ---">> >>

\* main.py:147-152
DemoSource ==
    [cls |-> "Source", title |-> "Demo Content", url |-> "https://example.com/demo",
     publish_date |-> None, authors |-> <<"Demo Author">>]

\* what Article(url).download()/parse() can do for one URL
ScrapeOutcomes == {"raise", "notext", "ok"}

\* the parsed article of a URL whose download and parse succeeded with text
ArticleOf(url) ==
    IF url = "https://a.example"
    THEN [title |-> "Page A", text |-> "text of a", publish_date |-> Some(20240101),
          authors |-> <<"Ann">>]
    ELSE IF url = "https://b.example"
    THEN [title |-> "Page B", text |-> "text of b", publish_date |-> None,
          authors |-> <<>>]
    ELSE [title |-> "", text |-> "text of c", publish_date |-> None,
          authors |-> <<"Cy", "Di">>]

\* main.py:175
NothingToSummarize == <<"No content was scraped to summarize.">>
\* main.py:210
SummaryFailed == <<"Failed to generate summary due to an AI model error.">>
\* response.text of a successful model call
ModelTexts == {<<"generated answer">>}

---------------------------------------------------------------------------
(* Pure helpers of the pipeline *)

\* Mutant of Falsy: `if query is None`, which lets the empty string through
Falsy_OnlyNone(query) == query = None

\* `not query` (main.py:265): None and the empty string are falsy
Falsy(query) == IF query = None THEN TRUE ELSE query[1] = ""

HTTPException(status_code, detail) ==
    [status |-> status_code, detail |-> detail, body |-> None]

Ok200(body) == [status |-> 200, detail |-> "", body |-> Some(body)]

\* what GoogleSearch(params).get_dict() can do: raise, or give organic results
SearchResults ==
    {[error |-> TRUE, links |-> <<>>]}
        \cup {[error |-> FALSE, links |-> TopResults(n)] : n \in 0..MaxWork}

\* main.py:108-125
search_the_web(res) ==
    IF ~serpapi_api_key THEN DemoUrls
    ELSE IF res.error THEN <<>>
    ELSE res.links

\* Mutant of DemoMode: `len(urls) < 2`, which the two demo URLs fail
DemoMode_OffByOne(urls) == ~serpapi_api_key /\ Len(urls) < 2

\* main.py:133: the hidden demo-mode test of scrape_and_process_urls
DemoMode(urls) == ~serpapi_api_key /\ Len(urls) <= 2

\* main.py:161: f"--- CONTENT FROM {url} ---\n{article.text}\n\n"
Segment(url, text) == <<"--- CONTENT FROM", url, "---", text>>

\* main.py:162-167
MakeSource(url, article) ==
    [cls |-> "Source", title |-> article.title, url |-> url,
     publish_date |-> IF article.publish_date # None
                      THEN Some(ToString(article.publish_date[1]))
                      ELSE None,
     authors |-> article.authors]

\* Mutant of ScrapeUrlInto: the `if article.text` test is lost, so a page
\* without text still contributes its delimiter line and a Source
ScrapeUrlInto_NoTextTest(acc, url, outcome) ==
    IF outcome \in {"ok", "notext"}
    THEN [combined_content |-> Append(acc.combined_content,
                                      Segment(url, IF outcome = "ok" THEN ArticleOf(url).text ELSE "")),
          sources_data |-> Append(acc.sources_data, MakeSource(url, ArticleOf(url)))]
    ELSE acc

\* Mutant of ScrapeUrlInto: the newest Source is put first
ScrapeUrlInto_Prepend(acc, url, outcome) ==
    IF outcome = "ok"
    THEN [combined_content |-> Append(acc.combined_content, Segment(url, ArticleOf(url).text)),
          sources_data |-> <<MakeSource(url, ArticleOf(url))>> \o acc.sources_data]
    ELSE acc

\* main.py:156-169: one iteration of the loop over urls; acc is the pair
\* (combined_content, sources_data) built so far
ScrapeUrlInto(acc, url, outcome) ==
    IF outcome = "ok"
    THEN [combined_content |-> Append(acc.combined_content, Segment(url, ArticleOf(url).text)),
          sources_data |-> Append(acc.sources_data, MakeSource(url, ArticleOf(url)))]
    ELSE acc

\* main.py:178-193; the character count is taken over the pieces of the text
DemoResponse(content, query) ==
    <<"Demo Response for:", query, "Content length:", ToString(Len(content))>>

\* the outcomes of model.generate_content(prompt) / response.text
ModelOutcomes ==
    {[error |-> TRUE, text |-> <<>>]} \cup {[error |-> FALSE, text |-> t] : t \in ModelTexts}

\* Mutant of summarize_content: the except branch returns the "nothing to
\* summarize" text instead of the failure text
summarize_content_WrongFallback(content, query, out) ==
    IF content = <<>> THEN NothingToSummarize
    ELSE IF ~google_api_key THEN DemoResponse(content, query)
    ELSE IF out.error THEN NothingToSummarize
    ELSE out.text

\* main.py:172-210
summarize_content(content, query, out) ==
    IF content = <<>> THEN NothingToSummarize
    ELSE IF ~google_api_key THEN DemoResponse(content, query)
    ELSE IF out.error THEN SummaryFailed
    ELSE out.text

\* main.py:87-91
Message(id, role, content, sources) ==
    [cls |-> "Message", id |-> id, role |-> role, content |-> content, sources |-> sources]

\* main.py:288
isoformat(t) == ToString(t)

\* Mutant of NewConversation: the model message is put before the user message
NewConversation_ModelFirst(query, summary, sources, uuid, now) ==
    [cls |-> "Conversation",
     id |-> uuid,
     title |-> query,
     messages |-> << Message(uuid + 2, "model", summary, Some(sources)),
                     Message(uuid + 1, "user", <<query>>, None) >>,
     createdAt |-> isoformat(now)]

\* Mutant of NewConversation: the conversation id is not drawn afresh
NewConversation_FixedId(query, summary, sources, uuid, now) ==
    [cls |-> "Conversation",
     id |-> 1,
     title |-> query,
     messages |-> << Message(uuid + 1, "user", <<query>>, None),
                     Message(uuid + 2, "model", summary, Some(sources)) >>,
     createdAt |-> isoformat(now)]

\* main.py:280-289; uuid is the first of the three fresh identifiers
NewConversation(query, summary, sources, uuid, now) ==
    [cls |-> "Conversation",
     id |-> uuid,
     title |-> query,
     messages |-> << Message(uuid + 1, "user", <<query>>, None),
                     Message(uuid + 2, "model", summary, Some(sources)) >>,
     createdAt |-> isoformat(now)]

\* pydantic .dict() (main.py:294): the object and everything in it as plain dicts
SourceDict(s) ==
    [title |-> s.title, url |-> s.url, publish_date |-> s.publish_date, authors |-> s.authors]

MessageDict(m) ==
    [id |-> m.id, role |-> m.role, content |-> m.content,
     sources |-> IF m.sources = None THEN None
                 ELSE Some([i \in 1..Len(m.sources[1]) |-> SourceDict(m.sources[1][i])])]

ConversationDict(c) ==
    [id |-> c.id, title |-> c.title,
     messages |-> [i \in 1..Len(c.messages) |-> MessageDict(c.messages[i])],
     createdAt |-> c.createdAt]

\* Conversation(**doc.to_dict()) (main.py:258): the objects rebuilt from the dicts
SourceFromDict(d) ==
    [cls |-> "Source", title |-> d.title, url |-> d.url,
     publish_date |-> d.publish_date, authors |-> d.authors]

\* Mutant of MessageFromDict: the sources are not read back
MessageFromDict_NoSources(d) ==
    [cls |-> "Message", id |-> d.id, role |-> d.role, content |-> d.content,
     sources |-> None]

MessageFromDict(d) ==
    [cls |-> "Message", id |-> d.id, role |-> d.role, content |-> d.content,
     sources |-> IF d.sources = None THEN None
                 ELSE Some([i \in 1..Len(d.sources[1]) |-> SourceFromDict(d.sources[1][i])])]

ConversationFromDict(d) ==
    [cls |-> "Conversation", id |-> d.id, title |-> d.title,
     messages |-> [i \in 1..Len(d.messages) |-> MessageFromDict(d.messages[i])],
     createdAt |-> d.createdAt]

\* main.py:242: {"id": conv.id, "title": conv.to_dict().get("title", "Untitled")}
ConversationMeta(id, d) == [id |-> id, title |-> d.title]

\* the orders in which stream() can deliver the documents with ids in S
Orders(S) == {o \in [1..Cardinality(S) -> S] : \A i, j \in 1..Cardinality(S) : o[i] = o[j] => i = j}

\* the document store with one more document (document(id).set(d))
StoreSet(st, id, d) == [k \in DOMAIN st \cup {id} |-> IF k = id THEN d ELSE st[k]]

---------------------------------------------------------------------------
(* State *)

\* a free request slot
Idle ==
    [pc |-> "idle", op |-> "none", query |-> None, conversation_id |-> 0,
     urls |-> <<>>, search_error |-> FALSE, outcomes |-> <<>>,
     combined_content |-> <<>>, sources_data |-> <<>>, model_error |-> FALSE,
     new_convo |-> None, response |-> None, calls |-> {}, seen |-> 0]

\* initialize_services (main.py:28-78) has run: each capability is configured
\* or not, and stays so
Init ==
    /\ db \in BOOLEAN
    /\ google_api_key \in BOOLEAN
    /\ serpapi_api_key \in BOOLEAN
    /\ store = [k \in {} |-> None]
    /\ req = [r \in Reqs |-> Idle]
    /\ last = Idle
    /\ nextUuid = 1
    /\ clock = 0
    /\ nWork = 0
    /\ setCalls = <<>>

\* the handler returns or raises: the slot is free, and the request is kept
\* with its response as the one answered last
Respond(r, rec, response) ==
    /\ req' = [req EXCEPT ![r] = Idle]
    /\ last' = [rec EXCEPT !.pc = "done", !.response = Some(response)]

\* the same for the read endpoints, which hold no slot
Answer(rec, response) ==
    /\ last' = [rec EXCEPT !.pc = "done", !.response = Some(response)]
    /\ UNCHANGED req

---------------------------------------------------------------------------
(* POST /conversations *)

\* main.py:262-266: the request arrives (it takes the first free slot) and the
\* query is validated
CreateConversation(r, query) ==
    /\ req[r].pc = "idle"
    /\ \A s \in Reqs : s < r => req[s].pc # "idle"
    /\ LET rec == [Idle EXCEPT !.op = "create", !.query = query]
       IN  \/ /\ Falsy(query)
              /\ Respond(r, rec, HTTPException(400, "Query is required."))
              /\ UNCHANGED nWork
           \/ /\ ~Falsy(query)
              /\ nWork < MaxWork
              /\ req' = [req EXCEPT ![r] = [rec EXCEPT !.pc = "search"]]
              /\ UNCHANGED last
              /\ nWork' = nWork + 1
    /\ UNCHANGED <<db, google_api_key, serpapi_api_key, store, nextUuid, clock, setCalls>>

\* Mutant of NoUrls: the 404 test is lost
NoUrls_Never(urls) == FALSE

\* main.py:270: `if not urls`
NoUrls(urls) == urls = <<>>

\* main.py:274: `if not content`
NoContent(content) == content = <<>>

\* main.py:269-271: urls = search_the_web(query); no urls is a 404
Searched(r, res) ==
    LET urls == search_the_web(res)
        rec  == [req[r] EXCEPT !.urls = urls,
                               !.search_error = serpapi_api_key /\ res.error,
                               !.calls = IF serpapi_api_key THEN @ \cup {"search"} ELSE @]
    IN  /\ nWork' = nWork + Len(urls)
        /\ IF NoUrls(urls)
           THEN Respond(r, rec, HTTPException(404, "No relevant web sources found for that query."))
           ELSE req' = [req EXCEPT ![r] = [rec EXCEPT !.pc = "scrape"]] /\ UNCHANGED last

SearchTheWeb(r) ==
    /\ req[r].pc = "search"
    /\ \/ /\ ~serpapi_api_key
          /\ Len(DemoUrls) <= MaxWork - nWork
          /\ Searched(r, [error |-> FALSE, links |-> <<>>])
       \/ /\ serpapi_api_key
          /\ \E res \in SearchResults :
                /\ Len(res.links) <= MaxWork - nWork
                /\ Searched(r, res)
    /\ UNCHANGED <<db, google_api_key, serpapi_api_key, store, nextUuid, clock, setCalls>>

\* main.py:273-275: `if not content` after scrape_and_process_urls returned
Scraped(r, rec) ==
    IF NoContent(rec.combined_content)
    THEN Respond(r, rec, HTTPException(500, "Could not extract content from any of the web sources."))
    ELSE req' = [req EXCEPT ![r] = [rec EXCEPT !.pc = "summarize"]] /\ UNCHANGED last

\* main.py:133-153: the demo branch of scrape_and_process_urls
ScrapeDemo(r) ==
    /\ req[r].pc = "scrape"
    /\ DemoMode(req[r].urls)
    /\ Scraped(r, [req[r] EXCEPT !.combined_content = DemoContent,
                                 !.sources_data = <<DemoSource>>])
    /\ UNCHANGED <<db, google_api_key, serpapi_api_key, store, nextUuid, clock,
                   nWork, setCalls>>

\* main.py:155-169: one iteration of `for url in urls`
ScrapeUrl(r) ==
    /\ req[r].pc = "scrape"
    /\ ~DemoMode(req[r].urls)
    /\ Len(req[r].outcomes) < Len(req[r].urls)
    /\ \E outcome \in ScrapeOutcomes :
          LET i   == Len(req[r].outcomes) + 1
              acc == ScrapeUrlInto([combined_content |-> req[r].combined_content,
                                    sources_data |-> req[r].sources_data],
                                   req[r].urls[i], outcome)
              rec == [req[r] EXCEPT !.outcomes = Append(@, outcome),
                                    !.combined_content = acc.combined_content,
                                    !.sources_data = acc.sources_data,
                                    !.calls = @ \cup {"extract"}]
          IN  req' = [req EXCEPT ![r] = rec]
    /\ UNCHANGED <<db, google_api_key, serpapi_api_key, store, last, nextUuid, clock,
                   nWork, setCalls>>

\* main.py:170: the loop is over and scrape_and_process_urls returns
ScrapeReturn(r) ==
    /\ req[r].pc = "scrape"
    /\ ~DemoMode(req[r].urls)
    /\ Len(req[r].outcomes) = Len(req[r].urls)
    /\ Scraped(r, req[r])
    /\ UNCHANGED <<db, google_api_key, serpapi_api_key, store, nextUuid, clock,
                   nWork, setCalls>>

\* main.py:277-289: summary = summarize_content(content, query), then the
\* Conversation is built from three fresh uuids and the current time
SummarizeContent(r) ==
    /\ req[r].pc = "summarize"
    /\ \E out \in ModelOutcomes :
          LET called  == req[r].combined_content # <<>> /\ google_api_key
              summary == summarize_content(req[r].combined_content, req[r].query[1], out)
              convo   == NewConversation(req[r].query[1], summary, req[r].sources_data,
                                         nextUuid, clock)
          IN  /\ called \/ ~out.error
              /\ req' = [req EXCEPT ![r] =
                            [@ EXCEPT !.pc = "persist",
                                      !.model_error = called /\ out.error,
                                      !.calls = IF called THEN @ \cup {"summarize"} ELSE @,
                                      !.new_convo = Some(convo)]]
    /\ nextUuid' = nextUuid + 3
    /\ clock' = clock + 1
    /\ UNCHANGED <<db, google_api_key, serpapi_api_key, store, last, nWork,
                   setCalls>>

\* Mutant of AfterSet: a failed write is surfaced as a request failure
AfterSet_Strict(convo, ok) ==
    IF ok THEN Ok200(convo)
    ELSE HTTPException(500, "Could not save conversation.")

\* main.py:293-301: what the request answers once set() returned (ok) or raised
AfterSet(convo, ok) == Ok200(convo)

\* main.py:291-301: the write is tried when the store is configured, its
\* failure is only logged, and the Conversation is returned
Persist(r) ==
    /\ req[r].pc = "persist"
    /\ LET convo == req[r].new_convo[1]
       IN  \/ /\ db
              /\ \E ok \in BOOLEAN :
                    /\ store' = IF ok THEN StoreSet(store, convo.id, ConversationDict(convo))
                                ELSE store
                    /\ setCalls' = Append(setCalls, [key |-> convo.id, convo |-> convo, ok |-> ok])
                    /\ Respond(r, [req[r] EXCEPT !.calls = @ \cup {"store.set"}],
                               AfterSet(convo, ok))
           \/ /\ ~db
              /\ Respond(r, req[r], Ok200(convo))
              /\ UNCHANGED <<store, setCalls>>
    /\ UNCHANGED <<db, google_api_key, serpapi_api_key, nextUuid, clock, nWork>>

---------------------------------------------------------------------------
(* GET /conversations/{conversation_id} and GET /conversations *)

\* ids a client can ask for: one that was never generated, and the ids of the
\* conversations built so far (persisted or not)
ProbeIds == {0} \cup {i \in 1..(nextUuid - 1) : i % 3 = 1}

\* main.py:255-259
ReadConversation(st, conversation_id) ==
    IF conversation_id \in DOMAIN st
    THEN Ok200(ConversationFromDict(st[conversation_id]))
    ELSE HTTPException(404, "Conversation not found.")

\* main.py:250-259
GetConversation(conversation_id) ==
    /\ LET rec == [Idle EXCEPT !.op = "get", !.conversation_id = conversation_id,
                               !.seen = Len(setCalls)]
       IN  \/ /\ ~db
              /\ Answer(rec, HTTPException(503, "Database service is not available."))
           \/ /\ db
              /\ Answer([rec EXCEPT !.calls = {"store.get"}],
                        ReadConversation(store, conversation_id))
    /\ UNCHANGED <<db, google_api_key, serpapi_api_key, store, nextUuid, clock,
                   nWork, setCalls>>

\* main.py:233-246
GetAllConversations ==
    /\ LET rec == [Idle EXCEPT !.op = "list", !.seen = Len(setCalls)]
       IN  \/ /\ ~db
              /\ Answer(rec, HTTPException(503, "Database service is not available."))
           \/ /\ db
              /\ \E o \in Orders(DOMAIN store) :
                    Answer([rec EXCEPT !.calls = {"store.stream"}],
                           Ok200([i \in 1..Len(o) |-> ConversationMeta(o[i], store[o[i]])]))
           \/ /\ db
              /\ Answer([rec EXCEPT !.calls = {"store.stream"}],
                        HTTPException(500, "Could not fetch conversations from the database."))
    /\ UNCHANGED <<db, google_api_key, serpapi_api_key, store, nextUuid, clock,
                   nWork, setCalls>>

---------------------------------------------------------------------------
Next ==
    \/ \E r \in Reqs, query \in Queries : CreateConversation(r, query)
    \/ \E r \in Reqs : SearchTheWeb(r)
    \/ \E r \in Reqs : ScrapeDemo(r)
    \/ \E r \in Reqs : ScrapeUrl(r)
    \/ \E r \in Reqs : ScrapeReturn(r)
    \/ \E r \in Reqs : SummarizeContent(r)
    \/ \E r \in Reqs : Persist(r)
    \/ \E id \in ProbeIds : GetConversation(id)
    \/ GetAllConversations

Spec == Init /\ [][Next]_vars

---------------------------------------------------------------------------
(* Vocabulary of the properties *)

\* the request answered last was a POST /conversations
CreateAnswered == last.pc = "done" /\ last.op = "create"

\* ... and its query was neither missing nor empty
ValidCreateAnswered ==
    /\ CreateAnswered
    /\ last.query # <<>>
    /\ last.query # <<"">>

LastStatus == last.response[1].status
LastBody == last.response[1].body[1]

\* the create requests in flight
InFlight == {r \in Reqs : req[r].pc # "idle"}

\* the URLs whose extraction succeeded with text, in the order of urls
OkUrls(urls, outcomes) ==
    LET idx == SelectSeq([i \in 1..Len(outcomes) |-> i], LAMBDA i : outcomes[i] = "ok")
    IN  [k \in 1..Len(idx) |-> urls[idx[k]]]

\* the url of each Source / of each delimiter line of the combined text
SourceUrls(sources) == [k \in 1..Len(sources) |-> sources[k].url]
SegmentUrls(content) == [k \in 1..Len(content) |-> content[k][2]]

---------------------------------------------------------------------------
(* C1: every Conversation returned by a create request with a non-empty    *)
(* query has exactly two messages, user then model; the user message       *)
(* carries the query and the title is the query, whatever the search, the  *)
(* extractions, the model call and the store write did.                    *)
C1_ReturnedConversationShape ==
    (ValidCreateAnswered /\ LastStatus = 200) =>
        /\ Len(LastBody.messages) = 2
        /\ LastBody.messages[1].role = "user"
        /\ LastBody.messages[1].content = <<last.query[1]>>
        /\ LastBody.messages[2].role = "model"
        /\ LastBody.title = last.query[1]

\* a Conversation was returned although an extraction raised, the model call
\* failed and the store write raised
C1_Witness ==
    /\ ValidCreateAnswered
    /\ LastStatus = 200
    /\ \E i \in 1..Len(last.outcomes) : last.outcomes[i] = "raise"
    /\ last.model_error
    /\ setCalls # <<>>
    /\ setCalls[Len(setCalls)].key = LastBody.id
    /\ ~setCalls[Len(setCalls)].ok

(* C2: a create request whose query is missing or empty is answered 400,   *)
(* and it calls no external capability: it never gets past validation, so  *)
(* no request in flight has such a query, and the answered one made no     *)
(* search, extraction, model or store call.                                *)
C2_InvalidInputNoCalls ==
    /\ (CreateAnswered /\ (last.query = <<>> \/ last.query = <<"">>)) =>
            /\ LastStatus = 400
            /\ last.calls = {}
            /\ last.urls = <<>>
            /\ last.new_convo = <<>>
    /\ \A r \in InFlight : req[r].query # <<>> /\ req[r].query # <<"">>

\* the empty query was refused
C2_Witness ==
    /\ CreateAnswered
    /\ last.query = <<"">>
    /\ LastStatus = 400

(* C3: when search_the_web returns no URL for a non-empty query (the       *)
(* provider gave no result, or its call raised), the request is answered   *)
(* 404 and nothing but the search was called; no request goes on to        *)
(* extraction, summarization or persistence with an empty URL list.        *)
C3_NoSourcesFound ==
    /\ (ValidCreateAnswered /\ last.urls = <<>>) =>
            /\ LastStatus = 404
            /\ last.calls \subseteq {"search"}
            /\ last.outcomes = <<>>
            /\ last.new_convo = <<>>
    /\ \A r \in InFlight : req[r].pc # "search" => req[r].urls # <<>>

\* the search call raised and the request was answered 404
C3_Witness ==
    /\ ValidCreateAnswered
    /\ last.search_error
    /\ LastStatus = 404

(* C4: when every URL of a non-empty candidate list was tried and none     *)
(* gave text (the download or parse raised, or the text was empty), the    *)
(* combined text is empty, the request is answered 500, the model was not  *)
(* called and nothing was written; no request reaches summarization or     *)
(* persistence after extractions that all failed.                          *)
C4_NoContentExtracted ==
    /\ (/\ ValidCreateAnswered
        /\ last.outcomes # <<>>
        /\ Len(last.outcomes) = Len(last.urls)
        /\ \A i \in 1..Len(last.outcomes) : last.outcomes[i] # "ok") =>
            /\ LastStatus = 500
            /\ last.combined_content = <<>>
            /\ "summarize" \notin last.calls
            /\ "store.set" \notin last.calls
            /\ last.new_convo = <<>>
    /\ \A r \in InFlight :
            (req[r].pc \in {"summarize", "persist"} /\ req[r].outcomes # <<>>) =>
                \E i \in 1..Len(req[r].outcomes) : req[r].outcomes[i] = "ok"

\* one extraction raised, another gave no text, none succeeded: 500
C4_Witness ==
    /\ ValidCreateAnswered
    /\ LastStatus = 500
    /\ \E i \in 1..Len(last.outcomes) : last.outcomes[i] = "raise"
    /\ \E i \in 1..Len(last.outcomes) : last.outcomes[i] = "notext"

(* C5: with the search configured, the extraction of one URL never affects *)
(* another: at every point of a request the Sources gathered so far are    *)
(* those of the URLs whose extraction succeeded with text, one each, in    *)
(* the order of the URL list, and the combined text holds one              *)
(* "--- CONTENT FROM <url> ---" segment for exactly those URLs in the same *)
(* order; every URL of the list has been tried before the request moves    *)
(* on, whatever failed before it; and the model message of the returned    *)
(* Conversation carries exactly those Sources.                             *)
C5_ExtractionIsolated ==
    serpapi_api_key =>
        \A rec \in {req[r] : r \in InFlight} \cup {last} :
            rec.op = "create" =>
                /\ Len(rec.outcomes) <= Len(rec.urls)
                /\ SourceUrls(rec.sources_data) = OkUrls(rec.urls, rec.outcomes)
                /\ SegmentUrls(rec.combined_content) = OkUrls(rec.urls, rec.outcomes)
                /\ \A k \in 1..Len(rec.combined_content) :
                        /\ rec.combined_content[k][1] = "--- CONTENT FROM"
                        /\ rec.combined_content[k][3] = "---"
                /\ rec.pc \in {"summarize", "persist"} => Len(rec.outcomes) = Len(rec.urls)
                /\ rec.new_convo # <<>> =>
                        /\ Len(rec.outcomes) = Len(rec.urls)
                        /\ rec.new_convo[1].messages[2].sources = <<rec.sources_data>>
                /\ (rec.pc = "done" /\ rec.response[1].status = 200) =>
                        SourceUrls(rec.response[1].body[1].messages[2].sources[1])
                            = OkUrls(rec.urls, rec.outcomes)

\* three URLs, the second raised, the first and the third are the sources
C5_Witness ==
    /\ serpapi_api_key
    /\ ValidCreateAnswered
    /\ LastStatus = 200
    /\ last.outcomes = <<"ok", "raise", "ok">>
    /\ SourceUrls(LastBody.messages[2].sources[1]) = <<last.urls[1], last.urls[3]>>

(* C6: without a search credential every create request with a non-empty   *)
(* query runs in demo mode: it is never answered 404 or 500, it makes no   *)
(* search and no extraction call, and the model message of the returned    *)
(* Conversation has exactly one Source, whose url is                       *)
(* "https://example.com/demo".                                             *)
C6_DemoMode ==
    ~serpapi_api_key =>
        /\ ValidCreateAnswered =>
                /\ LastStatus = 200
                /\ last.calls \cap {"search", "extract"} = {}
                /\ Len(LastBody.messages[2].sources[1]) = 1
                /\ LastBody.messages[2].sources[1][1].url = "https://example.com/demo"
        /\ \A r \in InFlight : req[r].calls \cap {"search", "extract"} = {}

\* a demo-mode Conversation was returned
C6_Witness ==
    /\ ~serpapi_api_key
    /\ ValidCreateAnswered
    /\ LastStatus = 200

(* C7: when the model call is made (non-empty combined text, credential    *)
(* configured) and fails, the request is still answered 200: the model     *)
(* message is the fixed failure text, its sources are the extracted        *)
(* sources, and the store write is still tried when a store is configured. *)
C7_SummarizerFailureAbsorbed ==
    /\ (CreateAnswered /\ last.model_error) =>
            /\ LastStatus = 200
            /\ LastBody.messages[2].content
                  = <<"Failed to generate summary due to an AI model error.">>
            /\ LastBody.messages[2].sources = <<last.sources_data>>
            /\ last.sources_data # <<>>
            /\ db => "store.set" \in last.calls
    /\ \A r \in InFlight :
            req[r].model_error =>
                /\ req[r].pc = "persist"
                /\ req[r].new_convo[1].messages[2].content
                      = <<"Failed to generate summary due to an AI model error.">>

\* the model call failed, the Conversation was returned and also written
C7_Witness ==
    /\ CreateAnswered
    /\ last.model_error
    /\ LastStatus = 200
    /\ LastBody.id \in DOMAIN store

(* C8: a request that has built its Conversation is answered 200 with that *)
(* very Conversation, whether the store is not configured, the write       *)
(* raised, or the write succeeded.                                         *)
C8_ReturnedRegardlessOfPersistence ==
    (CreateAnswered /\ last.new_convo # <<>>) =>
        /\ LastStatus = 200
        /\ LastBody = last.new_convo[1]
        /\ "store.set" \in last.calls <=> db
        /\ "store.set" \in last.calls =>
                /\ setCalls # <<>>
                /\ \E i \in 1..Len(setCalls) : setCalls[i].key = LastBody.id

\* the write raised, nothing was stored, and the Conversation was returned
C8_Witness ==
    /\ CreateAnswered
    /\ LastStatus = 200
    /\ "store.set" \in last.calls
    /\ LastBody.id \notin DOMAIN store

C10_StoreOnlyGrows ==
    /\ \A i, j \in 1..Len(setCalls) : setCalls[i].key = setCalls[j].key => i = j
    /\ DOMAIN store = {setCalls[i].key : i \in {j \in 1..Len(setCalls) : setCalls[j].ok}}
    /\ \A i \in 1..Len(setCalls) :
            setCalls[i].ok => store[setCalls[i].key] = ConversationDict(setCalls[i].convo)
    /\ (CreateAnswered /\ LastStatus # 200) => "store.set" \notin last.calls
    /\ Len(setCalls) <= nWork
    /\ ~db => store = <<>>

\* two requests were in flight together and wrote in the other order than
\* they drew their ids
C10_Witness ==
    /\ Len(setCalls) = 2
    /\ setCalls[1].ok
    /\ setCalls[2].ok
    /\ setCalls[1].key > setCalls[2].key
    /\ Cardinality(DOMAIN store) = 2

===========================================================================
